---- MODULE Spec2Model ----
(***************************************************************************)
(* Model of the consumer offset tracking and commit core of faust:         *)
(* faust/transport/base.py (MessageRef, Consumer), and of the changelog    *)
(* mirroring of faust/tables.py (Table).                                   *)
(*                                                                         *)
(* The consumer runs on one asyncio event loop: the code between two       *)
(* awaits is one atomic step.  maybe_commit suspends only on the commit    *)
(* mutex and on the driver commit, so one action models each stretch of    *)
(* its body between those suspension points.                               *)
(***************************************************************************)
EXTENDS Integers, Sequences, FiniteSets, TLC

\* ---------------------------------------------------------------- bounds

\* Messages handed to track_message in one session, over all partitions.
MaxTracked == 3
\* Direct calls of Consumer.ack (not through a MessageRef release).
MaxExplicitAcks == 1
\* Calls of on_partitions_revoked in one session.
MaxRevokes == 1

Topics == {"a", "b"}
\* TopicPartition(topic, partition): one partition per topic.
TPs == {<<t, 0>> : t \in Topics}
\* A partition's offsets start at 0, so MaxTracked messages reach at most
\* offset MaxTracked - 1.
Offsets == 0..(MaxTracked - 1)

\* The callers of maybe_commit: the commit loop, on_task_error and the
\* final commit attempt of on_partitions_revoked.
Callers == {"commit_handler", "on_task_error", "rebalance"}

\* Python's None, as returned by _new_offset for an empty ack list.
None == -1

VARIABLES
    autoack,          \* Consumer.autoack, the flag given to __init__
    autoack_dict,     \* Consumer._autoack: the entries of the defaultdict
    dirty_messages,   \* Consumer._dirty_messages: list of MessageRef
    live,             \* the MessageRefs whose message is still referenced
    acked_keys,       \* Consumer._acked: its keys, in insertion order
    acked,            \* Consumer._acked: tp -> sorted list of acked offsets
    current_offset,   \* Consumer._current_offset: tp -> offset
    recently_acked,   \* Consumer._recently_acked: asyncio.Queue
    commit_mutex,     \* Consumer._commit_mutex: TRUE when locked
    pc,               \* where each caller of maybe_commit is
    frame,            \* the locals of each caller's maybe_commit invocation
    error,            \* the exception the caller's last maybe_commit raised
    drain_pc,         \* where _recently_acked_handler is
    events,           \* what happened to each delivered message, in order
    message_in,       \* sensor events emitted by app.on_message_in
    message_out,      \* sensor events emitted by app.on_message_out
    broker_committed, \* the driver: tp -> last offset whose commit succeeded
    commit_log,       \* the driver: tp -> the offsets passed to _commit, in order
    ever_acked,       \* history: tp -> offsets ever passed to ack
    ack_count,        \* history: tp -> number of ack calls
    ack_unordered,    \* history: tp -> an ack came below an earlier one
    explicit_acks,    \* history: number of direct ack calls
    session_acked,    \* history: tp -> offsets passed to ack since tp's state
                      \* was last cleared
    assigned,         \* the partitions the driver has assigned to the consumer
    revoking,         \* the partitions of the on_partitions_revoked under way
    revokes,          \* history: number of on_partitions_revoked calls
    table_default,    \* Table.default: <<>>, or <<v>> for a factory returning v
    table_data,       \* Table.data: the underlying map
    changelog,        \* the records sent to Table.changelog_topic, in order
    table_ret,        \* the outcome of the last call on the table
    table_ops         \* history: number of calls on the table

vars == <<autoack, autoack_dict, dirty_messages, live, acked_keys, acked,
          current_offset, recently_acked, commit_mutex, pc, frame, error,
          drain_pc,
          events, message_in, message_out, broker_committed, commit_log,
          ever_acked, ack_count, ack_unordered, explicit_acks,
          session_acked, assigned, revoking, revokes,
          table_default, table_data, changelog, table_ret, table_ops>>

\* Groups used in UNCHANGED.
ackState == <<acked_keys, acked, recently_acked, ever_acked, ack_count,
              ack_unordered, session_acked>>
commitState == <<current_offset, commit_mutex, pc, frame, error,
                 broker_committed, commit_log>>
trackState == <<dirty_messages, message_in, events>>
drainState == <<drain_pc, message_out>>
tableState == <<table_default, table_data, changelog, table_ret, table_ops>>
rebalanceState == <<assigned, revoking, revokes>>
consumerState == <<autoack, autoack_dict, live, explicit_acks, ackState,
                   commitState, trackState, drainState, rebalanceState>>

\* ---------------------------------------------------------------- helpers

Range(s) == {s[i] : i \in 1..Len(s)}

Max(S) == CHOOSE x \in S : \A y \in S : y <= x

Min(S) == CHOOSE x \in S : \A y \in S : x <= y

\* A dict d with d[k] = v set (the key is added when it is new).
DictSet(d, k, v) == [x \in DOMAIN d \cup {k} |-> IF x = k THEN v ELSE d[x]]

EmptyDict == [x \in {} |-> 0]

\* list.sort(): insertion of each element in ascending order.
RECURSIVE InsertSorted(_, _)
InsertSorted(s, x) ==
    IF s = <<>> THEN <<x>>
    ELSE IF x < Head(s) THEN <<x>> \o s
         ELSE <<Head(s)>> \o InsertSorted(Tail(s), x)

RECURSIVE SortList(_)
SortList(s) ==
    IF s = <<>> THEN <<>>
    ELSE InsertSorted(SortList(SubSeq(s, 1, Len(s) - 1)), s[Len(s)])

IsSorted(s) == \A i \in 1..(Len(s) - 1) : s[i] <= s[i + 1]

\* faust.utils.functional.consecutive_numbers: the runs of consecutive
\* numbers of a list, in order.  A run ends where the next element is not
\* exactly one more than its predecessor.
RunLength(s) ==
    Max({k \in 1..Len(s) : \A i \in 1..(k - 1) : s[i + 1] = s[i] + 1})

RECURSIVE consecutive_numbers(_)
consecutive_numbers(s) ==
    IF s = <<>> THEN <<>>
    ELSE <<SubSeq(s, 1, RunLength(s))>>
             \o consecutive_numbers(SubSeq(s, RunLength(s) + 1, Len(s)))

\* ---------------------------------------------------------------- Consumer

\* MessageRef(message, tp=..., offset=...).
MessageRef(tp, offset) == [tp |-> tp, offset |-> offset]

\* Number of messages of tp handed to track_message so far: the driver
\* delivers a partition in offset order, starting at 0.
Delivered(tp) == Cardinality({i \in 1..Len(dirty_messages) :
                                 dirty_messages[i].tp = tp})

\* A topic name as a key of a dict.  The keys of self._autoack are declared
\* to be topic names (str); on_message_ready looks a TopicPartition up.  A
\* str is never equal to a TopicPartition: the name is the tuple <<topic>>,
\* which is no element of TPs.
TopicKey(topic) == <<topic>>

\* The per-topic autoack overrides an application can install in
\* self._autoack: a flag for some of the topics, keyed by topic name.
TopicOverrides ==
    UNION {[{TopicKey(t) : t \in S} -> BOOLEAN] : S \in SUBSET Topics}

\* self._autoack[tp]: the value of the lookup on the
\* defaultdict(lambda: autoack).
autoack_for(tp) ==
    IF tp \in DOMAIN autoack_dict THEN autoack_dict[tp] ELSE autoack

\* self._autoack[tp]: the dict after the lookup; a defaultdict stores the
\* default under a key it misses.
autoack_lookup(tp) ==
    IF tp \in DOMAIN autoack_dict THEN autoack_dict
    ELSE DictSet(autoack_dict, tp, autoack)

\* Mutant of append_sort: the list is appended to and not sorted.
append_only(acked_for_tp, offset) == Append(acked_for_tp, offset)

\* acked_for_tp.append(offset); acked_for_tp.sort()
append_sort(acked_for_tp, offset) == SortList(Append(acked_for_tp, offset))

\* self._recently_acked.put((tp, offset)) without await: asyncio.Queue.put
\* is a coroutine function, so the call only builds a coroutine object that
\* is never scheduled; the queue is left as it was.
put_not_awaited(queue, item) == queue

\* self._acked[tp] on the defaultdict(list).
acked_get(tp) == IF tp \in DOMAIN acked THEN acked[tp] ELSE <<>>

\* Mutant of new_offset: the highest acked offset is returned and the whole
\* list is dropped, whether or not a gap lies below it.
new_offset_ignores_gap(a) ==
    IF a # <<>>
    THEN [offset |-> a[Len(a)], acked |-> <<>>]
    ELSE [offset |-> None, acked |-> a]

\* Consumer._new_offset applied to the ack list of one tp: the offset it
\* returns and the list it leaves.
new_offset(a) ==
    IF a # <<>>
    THEN LET batch == Head(consecutive_numbers(a))
         IN  [offset |-> batch[Len(batch)],
              acked |-> SubSeq(a, Len(batch) + 1, Len(a))]
    ELSE [offset |-> None, acked |-> a]

\* Python's bool(offset) for an int.
bool(offset) == offset # 0

\* Mutant of should_commit: the comparison with the current offset is lost.
should_commit_any(tp, offset) ==
    \/ tp \notin DOMAIN current_offset
    \/ bool(offset)

\* Mutant of should_commit: a partition without a current offset commits
\* only an offset above 0.
should_commit_skip_zero(tp, offset) ==
    IF tp \notin DOMAIN current_offset
    THEN offset > 0
    ELSE offset > current_offset[tp]

\* Consumer._should_commit
should_commit(tp, offset) ==
    \/ tp \notin DOMAIN current_offset
    \/ (bool(offset) /\ offset > current_offset[tp])

\* ---------------------------------------------------------------- Init

\* The outcome of a call on the table: the call, its key, the value it
\* returned (None when it returns nothing) and the exception it raised.
Ret(op, key, value, exc) ==
    [op |-> op, key |-> key, value |-> value, error |-> exc]

NoRet == Ret("", "", None, "none")

NoFrame == [it |-> 0, size |-> 0, tp |-> <<"", 0>>, offset |-> None,
            did_commit |-> FALSE]

\* The consumer after __init__, but for its autoack settings.
InitConsumer ==
    /\ dirty_messages = <<>>
    /\ live = {}
    /\ acked_keys = <<>>
    /\ acked = EmptyDict
    /\ current_offset = EmptyDict
    /\ recently_acked = <<>>
    /\ commit_mutex = FALSE
    /\ pc = [c \in Callers |-> IF c = "commit_handler" THEN "sleep" ELSE "idle"]
    /\ frame = [c \in Callers |-> NoFrame]
    /\ error = [c \in Callers |-> "none"]
    /\ drain_pc = "start"
    /\ events = <<>>
    /\ message_in = {}
    /\ message_out = {}
    /\ broker_committed = EmptyDict
    /\ commit_log = [tp \in TPs |-> <<>>]
    /\ ever_acked = [tp \in TPs |-> {}]
    /\ ack_count = [tp \in TPs |-> 0]
    /\ ack_unordered = [tp \in TPs |-> FALSE]
    /\ explicit_acks = 0
    /\ session_acked = [tp \in TPs |-> {}]
    /\ assigned = TPs
    /\ revoking = {}
    /\ revokes = 0

\* A Table that is not used: no default, no data, nothing sent.
InitTableIdle ==
    /\ table_default = <<>>
    /\ table_data = EmptyDict
    /\ changelog = <<>>
    /\ table_ret = NoRet
    /\ table_ops = 0

Init ==
    /\ autoack \in BOOLEAN
    /\ autoack_dict = EmptyDict
    /\ InitConsumer
    /\ InitTableIdle

\* The consumer of an application that installed per-topic overrides.
InitAutoack ==
    /\ autoack \in BOOLEAN
    /\ autoack_dict \in TopicOverrides
    /\ InitConsumer
    /\ InitTableIdle

\* ---------------------------------------------------------------- ack path

\* Consumer.ack(tp, offset): what it does to the consumer and the history.
ack(tp, offset) ==
    /\ acked' = DictSet(acked, tp, append_sort(acked_get(tp), offset))
    /\ acked_keys' = IF tp \in DOMAIN acked THEN acked_keys
                     ELSE Append(acked_keys, tp)
    /\ recently_acked' = put_not_awaited(recently_acked, <<tp, offset>>)
    /\ ever_acked' = [ever_acked EXCEPT ![tp] = @ \cup {offset}]
    /\ ack_count' = [ack_count EXCEPT ![tp] = @ + 1]
    /\ ack_unordered' = [ack_unordered EXCEPT ![tp] =
                            @ \/ (\E o \in ever_acked[tp] : offset < o)]
    /\ session_acked' = [session_acked EXCEPT ![tp] = @ \cup {offset}]

\* One entry of the event log: what happened (kind) to which message.
Event(kind, ref) == [kind |-> kind, tp |-> ref.tp, offset |-> ref.offset]

\* Mutant of track_events: the sensor is called before the MessageRef is
\* appended.
track_events_sensor_first(ref) ==
    <<Event("message_in", ref), Event("tracked", ref)>>

\* What track_message does with a message, in the order of its statements:
\* self._dirty_messages.append(MessageRef(...)), then
\* await self._on_message_in(...).
track_events(ref) ==
    <<Event("tracked", ref), Event("message_in", ref)>>

\* Consumer.track_message(message, offset) for the next message of tp.
track_message(tp) ==
    /\ Len(dirty_messages) < MaxTracked
    /\ LET ref == MessageRef(tp, Delivered(tp))
       IN  /\ dirty_messages' = Append(dirty_messages, ref)
           /\ live' = live \cup {ref}
           /\ message_in' = message_in \cup {<<ref.tp, ref.offset>>}
           /\ events' = events \o track_events(ref)
    /\ UNCHANGED <<tableState, rebalanceState, autoack, autoack_dict,
                   ackState, commitState, drainState, explicit_acks>>

\* The message of ref has been handed to the consumer callback.
CalledBack(ref) == Event("callback", ref) \in Range(events)

\* The driver's fetch loop hands the message it gave to track_message to
\* self.callback, once track_message has returned.
driver_callback ==
    /\ dirty_messages # <<>>
    /\ ~CalledBack(dirty_messages[Len(dirty_messages)])
    /\ events' = Append(events,
                        Event("callback", dirty_messages[Len(dirty_messages)]))
    /\ UNCHANGED <<tableState, rebalanceState, autoack, autoack_dict, live,
                   dirty_messages, message_in, ackState, commitState,
                   drainState, explicit_acks>>

\* The driver's fetch loop takes the next message of tp: it has handed the
\* message before to the callback.
driver_fetch(tp) ==
    /\ (dirty_messages # <<>> => CalledBack(dirty_messages[Len(dirty_messages)]))
    /\ track_message(tp)

\* The message of ref goes out of scope: the weak reference calls
\* Consumer.on_message_ready(ref).
on_message_ready(ref) ==
    /\ ref \in live
    /\ live' = live \ {ref}
    /\ autoack_dict' = autoack_lookup(ref.tp)
    /\ IF autoack_for(ref.tp)
       THEN ack(ref.tp, ref.offset)
       ELSE UNCHANGED ackState
    /\ UNCHANGED <<tableState, rebalanceState, autoack, trackState,
                   commitState, drainState, explicit_acks>>

\* A direct call of Consumer.ack(tp, offset) by the application, for a
\* message it was given (released or not, acked before or not).
explicit_ack(ref) ==
    /\ explicit_acks < MaxExplicitAcks
    /\ explicit_acks' = explicit_acks + 1
    /\ ack(ref.tp, ref.offset)
    /\ UNCHANGED <<tableState, rebalanceState, autoack, autoack_dict, live,
                   trackState, commitState, drainState>>

\* ---------------------------------------------------------------- commit

\* The tp the dict iterator of maybe_commit yields at position j.
KeyAt(j) == acked_keys[j]

\* Whether the loop body of maybe_commit commits for the key at position j.
Commits(j) ==
    LET r == new_offset(acked[KeyAt(j)])
    IN  r.offset # None /\ should_commit(KeyAt(j), r.offset)

\* First position from i on at which the loop body reaches the driver
\* commit, 0 when the loop runs to its end without one.
StopAt(i) ==
    IF \E j \in i..Len(acked_keys) : Commits(j)
    THEN Min({j \in i..Len(acked_keys) : Commits(j)})
    ELSE 0

\* What a caller is after maybe_commit returned.
Returned(c) ==
    CASE c = "commit_handler" -> "sleep"
      [] c = "on_task_error" -> "idle"
      [] c = "rebalance" -> "clear"

\* What a caller is after maybe_commit raised: _commit_handler has no
\* handler around maybe_commit, so the exception ends its loop.
Raised(c) ==
    CASE c = "commit_handler" -> "crashed"
      [] c = "on_task_error" -> "idle"
      [] c = "rebalance" -> "clear"

\* The body of the for loop of maybe_commit from iterator position i on,
\* up to the await of the driver commit or the end of the loop.
run_loop(c, i, size) ==
    LET stop == StopAt(i)
        last == IF stop = 0 THEN Len(acked_keys) ELSE stop
        scanned == {KeyAt(j) : j \in i..last}
    IN  /\ acked' = [tp \in DOMAIN acked |->
                        IF tp \in scanned THEN new_offset(acked[tp]).acked
                        ELSE acked[tp]]
        /\ IF stop # 0
           THEN LET tp == KeyAt(stop)
                    offset == new_offset(acked[tp]).offset
                IN  /\ current_offset' = DictSet(current_offset, tp, offset)
                    /\ commit_log' = [commit_log EXCEPT ![tp] = Append(@, offset)]
                    /\ frame' = [frame EXCEPT ![c] =
                                    [it |-> stop + 1, size |-> size, tp |-> tp,
                                     offset |-> offset, did_commit |-> TRUE]]
                    /\ pc' = [pc EXCEPT ![c] = "commit"]
                    /\ commit_mutex' = TRUE
           ELSE /\ UNCHANGED <<current_offset, commit_log>>
                /\ frame' = [frame EXCEPT ![c] = NoFrame]
                /\ pc' = [pc EXCEPT ![c] = Returned(c)]
                /\ commit_mutex' = FALSE

\* maybe_commit raises: the mutex is released by async with.
raise(c, exc) ==
    /\ error' = [error EXCEPT ![c] = exc]
    /\ frame' = [frame EXCEPT ![c] = NoFrame]
    /\ pc' = [pc EXCEPT ![c] = Raised(c)]
    /\ commit_mutex' = FALSE

\* Mutant of mutex_free: maybe_commit does not wait for the mutex.
mutex_ignored == TRUE

\* Whether the commit mutex can be taken.
mutex_free == ~commit_mutex

\* _commit_handler wakes from asyncio.sleep(commit_interval) and calls
\* maybe_commit.
commit_handler_tick ==
    /\ pc["commit_handler"] = "sleep"
    /\ pc' = [pc EXCEPT !["commit_handler"] = "acquire"]
    /\ error' = [error EXCEPT !["commit_handler"] = "none"]
    /\ UNCHANGED <<tableState, rebalanceState, autoack, autoack_dict, live,
                   trackState, ackState, drainState, explicit_acks,
                   current_offset, commit_mutex, frame, broker_committed,
                   commit_log>>

\* Consumer.on_task_error(exc): calls maybe_commit when self.autoack is
\* set, and returns without doing anything ("skipped") when it is not.
on_task_error ==
    /\ pc["on_task_error"] \in {"idle", "skipped"}
    /\ pc' = [pc EXCEPT !["on_task_error"] =
                 IF autoack THEN "acquire" ELSE "skipped"]
    /\ error' = [error EXCEPT !["on_task_error"] = "none"]
    /\ UNCHANGED <<tableState, rebalanceState, autoack, autoack_dict, live,
                   trackState, ackState, drainState, explicit_acks,
                   current_offset, commit_mutex, frame, broker_committed,
                   commit_log>>

\* maybe_commit: async with self._commit_mutex is entered, and the loop
\* over self._acked runs up to its first driver commit.
maybe_commit_enter(c) ==
    /\ pc[c] = "acquire"
    /\ mutex_free
    /\ run_loop(c, 1, Len(acked_keys))
    /\ UNCHANGED <<tableState, rebalanceState, autoack, autoack_dict, live,
                   trackState, drainState, explicit_acks, acked_keys,
                   recently_acked, ever_acked, ack_count, ack_unordered,
                   session_acked, error, broker_committed>>

\* The awaited driver commit of maybe_commit completes, with success or with
\* an exception of the driver; on success the for loop goes on: the dict
\* iterator raises RuntimeError when self._acked changed size meanwhile.
do_commit(c, ok) ==
    /\ pc[c] = "commit"
    /\ IF ~ok
       THEN /\ raise(c, "CommitError")
            /\ UNCHANGED <<acked, current_offset, commit_log, broker_committed>>
       ELSE /\ broker_committed' =
                   DictSet(broker_committed, frame[c].tp, frame[c].offset)
            /\ IF Len(acked_keys) # frame[c].size
               THEN /\ raise(c, "RuntimeError")
                    /\ UNCHANGED <<acked, current_offset, commit_log>>
               ELSE /\ run_loop(c, frame[c].it, frame[c].size)
                    /\ UNCHANGED error
    /\ UNCHANGED <<tableState, rebalanceState, autoack, autoack_dict, live,
                   trackState, drainState, explicit_acks, acked_keys,
                   recently_acked, ever_acked, ack_count, ack_unordered,
                   session_acked>>

\* ---------------------------------------------------------------- drain

\* Consumer._recently_acked_handler: it awaits self._recently_acked.get(),
\* and for each pair it gets it calls app.on_message_out.  With the queue
\* empty the handler stays suspended in get().
recently_acked_handler ==
    /\ IF recently_acked = <<>>
       THEN /\ drain_pc = "start"
            /\ drain_pc' = "get"
            /\ UNCHANGED <<recently_acked, message_out>>
       ELSE /\ recently_acked' = Tail(recently_acked)
            /\ message_out' = message_out \cup {Head(recently_acked)}
            /\ drain_pc' = "get"
    /\ UNCHANGED <<tableState, rebalanceState, autoack, autoack_dict, live,
                   trackState, commitState, explicit_acks, acked_keys, acked,
                   ever_acked, ack_count, ack_unordered, session_acked>>

\* ---------------------------------------------------------------- rebalance

\* on_partitions_revoked(tps), called by the driver's rebalance listener:
\* it starts with a final call of maybe_commit.
on_partitions_revoked(tps) ==
    /\ pc["rebalance"] = "idle"
    /\ revokes < MaxRevokes
    /\ revokes' = revokes + 1
    /\ tps # {}
    /\ tps \subseteq assigned
    /\ revoking' = tps
    /\ pc' = [pc EXCEPT !["rebalance"] = "acquire"]
    /\ error' = [error EXCEPT !["rebalance"] = "none"]
    /\ UNCHANGED <<tableState, autoack, autoack_dict, live, trackState,
                   ackState, drainState, explicit_acks, assigned,
                   current_offset, commit_mutex, frame, broker_committed,
                   commit_log>>

\* on_partitions_revoked(tps), after its maybe_commit returned or raised:
\* the ack list and the current offset of each revoked partition are
\* cleared, and the driver releases the partitions.
revoke_clear ==
    /\ pc["rebalance"] = "clear"
    /\ acked' = [tp \in DOMAIN acked |->
                    IF tp \in revoking THEN <<>> ELSE acked[tp]]
    /\ current_offset' = [tp \in DOMAIN current_offset \ revoking |->
                             current_offset[tp]]
    /\ session_acked' = [tp \in TPs |->
                            IF tp \in revoking THEN {} ELSE session_acked[tp]]
    /\ assigned' = assigned \ revoking
    /\ revoking' = {}
    /\ pc' = [pc EXCEPT !["rebalance"] = "idle"]
    /\ UNCHANGED <<tableState, revokes, autoack, autoack_dict, live,
                   trackState, drainState, explicit_acks, acked_keys,
                   recently_acked, ever_acked, ack_count, ack_unordered,
                   commit_mutex, frame, error, broker_committed, commit_log>>

\* on_partitions_assigned(tps): the current offset of each assigned
\* partition is the committed offset the driver reports for it (none for a
\* partition nothing was committed for), and its ack list is empty.
on_partitions_assigned(tps) ==
    /\ pc["rebalance"] = "idle"
    /\ tps # {}
    /\ tps \subseteq TPs \ assigned
    /\ assigned' = assigned \cup tps
    /\ current_offset' =
           [tp \in (DOMAIN current_offset \ tps)
                      \cup (tps \cap DOMAIN broker_committed) |->
               IF tp \in tps THEN broker_committed[tp] ELSE current_offset[tp]]
    /\ acked' = [tp \in DOMAIN acked |->
                    IF tp \in tps THEN <<>> ELSE acked[tp]]
    /\ session_acked' = [tp \in TPs |->
                            IF tp \in tps THEN {} ELSE session_acked[tp]]
    /\ UNCHANGED <<tableState, revokes, autoack, autoack_dict, live,
                   trackState, drainState, explicit_acks, acked_keys,
                   recently_acked, ever_acked, ack_count, ack_unordered,
                   revoking, commit_mutex, pc, frame, error, broker_committed,
                   commit_log>>

\* The consumer under rebalances: messages are fetched for the assigned
\* partitions, and the commit loop runs.
NextRebalance ==
    \/ \E tp \in assigned : track_message(tp)
    \/ \E ref \in live : on_message_ready(ref)
    \/ commit_handler_tick
    \/ \E c \in Callers : maybe_commit_enter(c)
    \/ \E c \in Callers, ok \in BOOLEAN : do_commit(c, ok)
    \/ \E tps \in SUBSET TPs : on_partitions_revoked(tps)
    \/ revoke_clear
    \/ \E tps \in SUBSET TPs : on_partitions_assigned(tps)

SpecRebalance == Init /\ [][NextRebalance]_vars

\* ---------------------------------------------------------------- Table

\* Calls made on the table in one run.
MaxTableOps == 3

Keys == {"x", "y"}

\* The values stored in a table: Python objects, None among them.
Values == {1, 2, None}

\* The events a stream hands to Table.on_done: objects, never None.
EventValues == Values \ {None}

\* The default factories a Table is built with: <<>> for default=None,
\* <<v>> for a callable that returns v.
Defaults == {<<>>} \cup {<<v>> : v \in Values}

\* app.send_soon(topic, key=..., value=...) for the changelog topic: the
\* record is put on the queue of messages to produce.
send_soon(queue, key, value) == Append(queue, <<key, value>>)

\* Table.on_key_set
on_key_set(queue, key, value) == send_soon(queue, key, value)

\* Mutant of on_key_del: nothing is sent for a deleted key.
on_key_del_silent(queue, key) == queue

\* Table.on_key_del
on_key_del(queue, key) == send_soon(queue, key, None)

\* A dict d with the key k deleted.
DictDel(d, k) == [x \in DOMAIN d \ {k} |-> d[x]]

\* self[key] = value on the ManagedUserDict: the underlying map is updated
\* and on_key_set is called.
setitem(key, value) ==
    /\ table_data' = DictSet(table_data, key, value)
    /\ changelog' = on_key_set(changelog, key, value)

\* Mutant of missing: the default is returned without being stored.
missing_not_stored(key) ==
    IF table_default # <<>>
    THEN /\ UNCHANGED <<table_data, changelog>>
         /\ table_ret' = Ret("get", key, table_default[1], "none")
    ELSE /\ UNCHANGED <<table_data, changelog>>
         /\ table_ret' = Ret("get", key, None, "KeyError")

\* Table.__missing__(key)
missing(key) ==
    IF table_default # <<>>
    THEN /\ setitem(key, table_default[1])
         /\ table_ret' = Ret("get", key, table_default[1], "none")
    ELSE /\ UNCHANGED <<table_data, changelog>>
         /\ table_ret' = Ret("get", key, None, "KeyError")

\* One more call on the table; the consumer is not involved.
table_call ==
    /\ table_ops < MaxTableOps
    /\ table_ops' = table_ops + 1
    /\ UNCHANGED <<table_default, consumerState>>

\* table[key] = value
table_set(key, value) ==
    /\ table_call
    /\ setitem(key, value)
    /\ table_ret' = Ret("set", key, None, "none")

\* del table[key]: the entry is removed from the underlying map and
\* on_key_del is called; a key that is not there raises KeyError.
table_del(key) ==
    /\ table_call
    /\ IF key \in DOMAIN table_data
       THEN /\ table_data' = DictDel(table_data, key)
            /\ changelog' = on_key_del(changelog, key)
            /\ table_ret' = Ret("del", key, None, "none")
       ELSE /\ UNCHANGED <<table_data, changelog>>
            /\ table_ret' = Ret("del", key, None, "KeyError")

\* table[key]: the stored value, or __missing__(key) for a key that is not
\* in the underlying map.
table_get(key) ==
    /\ table_call
    /\ IF key \in DOMAIN table_data
       THEN /\ UNCHANGED <<table_data, changelog>>
            /\ table_ret' = Ret("get", key, table_data[key], "none")
       ELSE missing(key)

\* Table.on_done(value) for an event value whose value.req.key is key: the
\* event is stored under the key and handed on to Stream.on_done.
on_done(value, key) ==
    /\ table_call
    /\ setitem(key, value)
    /\ table_ret' = Ret("on_done", key, value, "none")

\* A bound Table, built with or without a default factory.
InitTable ==
    /\ autoack = TRUE
    /\ autoack_dict = EmptyDict
    /\ InitConsumer
    /\ table_default \in Defaults
    /\ table_data = EmptyDict
    /\ changelog = <<>>
    /\ table_ret = NoRet
    /\ table_ops = 0

NextTable ==
    \/ \E key \in Keys, value \in Values : table_set(key, value)
    \/ \E key \in Keys : table_del(key)
    \/ \E key \in Keys : table_get(key)
    \/ \E key \in Keys, value \in EventValues : on_done(value, key)

SpecTable == InitTable /\ [][NextTable]_vars

\* ---------------------------------------------------------------- Spec

\* The consumer with its commit loop as the only caller of maybe_commit.
Next ==
    \/ \E tp \in TPs : track_message(tp)
    \/ \E ref \in live : on_message_ready(ref)
    \/ \E ref \in Range(dirty_messages) : explicit_ack(ref)
    \/ commit_handler_tick
    \/ \E c \in Callers : maybe_commit_enter(c)
    \/ \E c \in Callers, ok \in BOOLEAN : do_commit(c, ok)

Spec == Init /\ [][Next]_vars

\* The consumer with both callers of maybe_commit and the drain loop.
NextAll ==
    \/ \E tp \in TPs : track_message(tp)
    \/ \E ref \in live : on_message_ready(ref)
    \/ \E ref \in Range(dirty_messages) : explicit_ack(ref)
    \/ commit_handler_tick
    \/ on_task_error
    \/ \E c \in Callers : maybe_commit_enter(c)
    \/ \E c \in Callers, ok \in BOOLEAN : do_commit(c, ok)
    \/ recently_acked_handler

SpecAll == Init /\ [][NextAll]_vars

\* The consumer with both callers of maybe_commit, acks coming from
\* MessageRef releases.
NextConcurrent ==
    \/ \E tp \in TPs : track_message(tp)
    \/ \E ref \in live : on_message_ready(ref)
    \/ commit_handler_tick
    \/ on_task_error
    \/ \E c \in Callers : maybe_commit_enter(c)
    \/ \E c \in Callers, ok \in BOOLEAN : do_commit(c, ok)

SpecConcurrent == Init /\ [][NextConcurrent]_vars

\* The consumer under the fetch loop of its driver: each message goes to
\* track_message and then to the callback; the application releases a
\* message after it got it.
NextDriver ==
    \/ \E tp \in TPs : driver_fetch(tp)
    \/ driver_callback
    \/ \E ref \in live : CalledBack(ref) /\ on_message_ready(ref)
    \/ commit_handler_tick
    \/ \E c \in Callers : maybe_commit_enter(c)
    \/ \E c \in Callers, ok \in BOOLEAN : do_commit(c, ok)

SpecDriver == Init /\ [][NextDriver]_vars

\* The consumer with per-topic autoack overrides installed.
SpecAutoack == InitAutoack /\ [][Next]_vars

\* The consumer with per-topic autoack overrides installed and task errors.
SpecTaskError == InitAutoack /\ [][NextConcurrent]_vars

\* ---------------------------------------------------------------- claims

\* Position from which caller c's maybe_commit goes over self._acked in the
\* step it takes now.
StepFrom(c) == IF pc[c] = "acquire" THEN 1 ELSE frame[c].it

\* Caller c's maybe_commit takes a step.
MaybeCommitStep(c) ==
    /\ pc[c] \in {"acquire", "commit"}
    /\ (pc'[c] # pc[c] \/ frame'[c] # frame[c])

\* The partitions whose ack list caller c's maybe_commit goes through in
\* this step (none when the step raises).
VisitedInStep(c) ==
    IF ~MaybeCommitStep(c) THEN {}
    ELSE IF pc'[c] = "commit"
         THEN {acked_keys[j] : j \in StepFrom(c)..(frame'[c].it - 1)}
         ELSE IF pc'[c] = Returned(c) /\ error'[c] = "none"
              THEN {acked_keys[j] : j \in StepFrom(c)..Len(acked_keys)}
              ELSE {}

\* Length of the longest prefix of s in which each element is exactly one
\* more than its predecessor (s not empty).
ConsecutivePrefixLen(s) ==
    CHOOSE k \in 1..Len(s) :
        /\ \A i \in 1..(k - 1) : s[i + 1] = s[i] + 1
        /\ (k = Len(s) \/ s[k + 1] # s[k] + 1)

Last(s) == s[Len(s)]

\* A driver commit for tp is issued in this step.
CommitIssued(tp) == commit_log'[tp] # commit_log[tp]

\* The current offset of tp is left as it is in this step.
CurrentOffsetKept(tp) ==
    /\ (tp \in DOMAIN current_offset') = (tp \in DOMAIN current_offset)
    /\ tp \in DOMAIN current_offset => current_offset'[tp] = current_offset[tp]

\* C1: whenever maybe_commit goes through the ack list of a partition, the
\* list is sorted; when it is not empty, exactly its longest prefix of
\* consecutive offsets is removed, every offset above stays, and an offset
\* committed or stored for the partition in that step is the last element
\* of that prefix; when it is empty, nothing is committed or stored.
C1_CommittablePrefix ==
    [][\A c \in Callers : \A tp \in VisitedInStep(c) :
          /\ IsSorted(acked[tp])
          /\ IF acked[tp] = <<>>
             THEN /\ acked'[tp] = <<>>
                  /\ ~CommitIssued(tp)
                  /\ CurrentOffsetKept(tp)
             ELSE LET k == ConsecutivePrefixLen(acked[tp])
                  IN  /\ acked'[tp] = SubSeq(acked[tp], k + 1, Len(acked[tp]))
                      /\ CommitIssued(tp) =>
                            /\ Last(commit_log'[tp]) = acked[tp][k]
                            /\ tp \in DOMAIN current_offset'
                            /\ current_offset'[tp] = acked[tp][k]
                      /\ ~CommitIssued(tp) => CurrentOffsetKept(tp)]_vars

\* C1 witness: a commit is in flight for the prefix below a gap, and the
\* offset above the gap is still in the ack list.
C1_Witness ==
    \E c \in Callers :
        /\ pc[c] = "commit"
        /\ acked[frame[c].tp] # <<>>
        /\ acked[frame[c].tp][1] > frame[c].offset + 1
        /\ ack_count[frame[c].tp] = 2
        /\ commit_log[frame[c].tp] = <<frame[c].offset>>

\* C2: once a commit for a partition has been made below an offset g that
\* was never acked, no offset above g is committed: the current offset
\* stays below g.
C2_GapsDoNotHeal ==
    \A tp \in DOMAIN current_offset : \A g \in Offsets :
        (/\ g \notin ever_acked[tp]
         /\ commit_log[tp] # <<>>
         /\ commit_log[tp][1] < g)
        => current_offset[tp] < g

\* C3: when a driver commit of offset o for tp is in flight, every message
\* of tp given to track_message with an offset up to o has been acked.
C3_AtLeastOnce ==
    \A c \in Callers :
        pc[c] = "commit" =>
            \A i \in 1..Len(dirty_messages) :
                (/\ dirty_messages[i].tp = frame[c].tp
                 /\ dirty_messages[i].offset <= frame[c].offset)
                => dirty_messages[i].offset \in ever_acked[frame[c].tp]

\* C4: the current offset of a partition never decreases and is never
\* unset, and each offset passed to the driver commit for a partition is
\* greater than the one passed before it.
C4_Monotonic ==
    [][\A tp \in TPs :
          /\ tp \in DOMAIN current_offset =>
                /\ tp \in DOMAIN current_offset'
                /\ current_offset'[tp] >= current_offset[tp]
          /\ (CommitIssued(tp) /\ commit_log[tp] # <<>>) =>
                Last(commit_log'[tp]) > Last(commit_log[tp])]_vars

\* C4 witness: two commits were made for a partition, an offset was acked
\* twice, and the stale ack has been gone through and dropped.
C4_Witness ==
    \E tp \in TPs :
        /\ Len(commit_log[tp]) = 2
        /\ ack_count[tp] > Cardinality(ever_acked[tp])
        /\ acked[tp] = <<>>
        /\ pc["commit_handler"] = "sleep"

\* All acks of tp so far are the offsets 0..n, each once, and none has been
\* gone through by maybe_commit yet.
PermutationPending(tp) ==
    /\ tp \in DOMAIN acked
    /\ ack_count[tp] > 0
    /\ Len(acked[tp]) = ack_count[tp]
    /\ ever_acked[tp] = 0..(ack_count[tp] - 1)

\* C5: when the acks of a partition are the offsets 0..n, each once and in
\* any order, the maybe_commit that goes through them leaves the current
\* offset at n and the ack list empty.
C5_AckOrderIrrelevant ==
    [][\A c \in Callers : \A tp \in VisitedInStep(c) :
          PermutationPending(tp) =>
              /\ tp \in DOMAIN current_offset'
              /\ current_offset'[tp] = ack_count[tp] - 1
              /\ acked'[tp] = <<>>]_vars

\* C5 witness: the offsets 0, 1, 2 were acked out of order, one maybe_commit
\* went through them, and its commit of 2 is in flight with the list empty.
C5_Witness ==
    \E c \in Callers :
        /\ pc[c] = "commit"
        /\ frame[c].offset = 2
        /\ ack_unordered[frame[c].tp]
        /\ ack_count[frame[c].tp] = 3
        /\ ever_acked[frame[c].tp] = 0..2
        /\ commit_log[frame[c].tp] = <<2>>
        /\ acked[frame[c].tp] = <<>>
        /\ current_offset[frame[c].tp] = 2

\* C6: the ack list of a partition never holds the same offset twice.
C6_NoDuplicateAcks ==
    \A tp \in DOMAIN acked :
        \A i, j \in 1..Len(acked[tp]) : i # j => acked[tp][i] # acked[tp][j]

\* A maybe_commit invocation is between taking the mutex and the end of
\* its driver commits.
InCommit(c) == pc[c] = "commit"

\* C7: at most one maybe_commit invocation holds the commit mutex, the
\* mutex is locked exactly while one does, and while one does, the current
\* offsets, the driver commits and the removal of acked offsets are its own.
C7_OneCommitInFlight ==
    [][/\ \A c, d \in Callers : (InCommit(c) /\ InCommit(d))' => c = d
       /\ (commit_mutex <=> \E c \in Callers : InCommit(c))'
       /\ \A c \in Callers :
             (/\ InCommit(c)
              /\ \/ current_offset' # current_offset
                 \/ commit_log' # commit_log
                 \/ \E tp \in DOMAIN acked : Len(acked'[tp]) < Len(acked[tp]))
             => MaybeCommitStep(c)]_vars

\* C7 witness: one caller's driver commit is in flight while the other
\* caller waits for the mutex.
C7_Witness ==
    \E c, d \in Callers :
        /\ c # d
        /\ pc[c] = "commit"
        /\ pc[d] = "acquire"
        /\ commit_mutex

\* C8: when no driver commit is in flight, the current offset of each
\* partition is the offset of the last driver commit that succeeded.
C8_CurrentIsCommitted ==
    (\A c \in Callers : pc[c] # "commit") => current_offset = broker_committed

\* C9: a driver commit that failed has not ended the commit loop.
C9_LoopSurvivesFailure ==
    error["commit_handler"] = "CommitError" => pc["commit_handler"] # "crashed"

\* C10: every released message of a partition with autoack on, and so every
\* ack, is on the recently-acked queue or has been reported by message_out.
C10_AckIsReported ==
    \A i \in 1..Len(dirty_messages) :
        (dirty_messages[i] \notin live /\ autoack_for(dirty_messages[i].tp))
        => \/ <<dirty_messages[i].tp, dirty_messages[i].offset>>
                  \in Range(recently_acked)
           \/ <<dirty_messages[i].tp, dirty_messages[i].offset>>
                  \in message_out

\* The autoack setting of a topic: its override when one is installed, the
\* global flag otherwise.
AutoackOf(topic) ==
    IF TopicKey(topic) \in DOMAIN autoack_dict
    THEN autoack_dict[TopicKey(topic)]
    ELSE autoack

\* C11: a released message of a topic whose autoack setting is off is not
\* acked unless ack is called directly, and a released message of a topic
\* whose autoack setting is on is acked.
C11_AutoackPerTopic ==
    \A i \in 1..Len(dirty_messages) :
        LET ref == dirty_messages[i]
        IN  ref \notin live =>
                IF AutoackOf(ref.tp[1])
                THEN ref.offset \in ever_acked[ref.tp]
                ELSE explicit_acks = 0 => ref.offset \notin ever_acked[ref.tp]

\* The offset maybe_commit computes for a partition whose ack list is not
\* empty: the last element of the longest consecutive prefix.
PrefixOffset(tp) == acked[tp][ConsecutivePrefixLen(acked[tp])]

EventAt(e) == {i \in 1..Len(events) : events[i] = e}

Mutated(k) ==
    \/ (k \in DOMAIN table_data) # (k \in DOMAIN table_data')
    \/ /\ k \in DOMAIN table_data
       /\ k \in DOMAIN table_data'
       /\ table_data'[k] # table_data[k]

\* The changelog grows by exactly the record rec in this step.
Enqueued(rec) == changelog' = Append(changelog, rec)

\* C14: every call that sets a key of a bound table (an assignment, the
\* insert of a default for a missing key, on_done) has enqueued the record
\* (key, value stored) on the changelog when it returns, every deletion has
\* enqueued the tombstone (key, None), records are only ever added at the
\* end, and no key of the underlying map changes without its record.
C14_ChangelogMirror ==
    [][/\ table_ops' # table_ops =>
             LET r == table_ret'
             IN  /\ r.op \in {"set", "on_done"} =>
                        /\ r.key \in DOMAIN table_data'
                        /\ Enqueued(<<r.key, table_data'[r.key]>>)
                 /\ r.op = "on_done" => table_data'[r.key] = r.value
                 /\ (r.op = "get" /\ r.error = "none"
                        /\ r.key \notin DOMAIN table_data) =>
                        /\ table_data'[r.key] = r.value
                        /\ Enqueued(<<r.key, r.value>>)
                 /\ (r.op = "del" /\ r.error = "none") =>
                        /\ r.key \notin DOMAIN table_data'
                        /\ Enqueued(<<r.key, None>>)
       /\ Len(changelog') >= Len(changelog)
       /\ SubSeq(changelog', 1, Len(changelog)) = changelog
       /\ \A k \in Keys :
             Mutated(k) =>
                 Enqueued(<<k, IF k \in DOMAIN table_data'
                               THEN table_data'[k] ELSE None>>)]_vars

\* C14 witness: table["x"] = 1; table["y"] = 2; del table["x"] were made and
\* the changelog holds their three records in that order.
C14_Witness ==
    /\ changelog = <<<<"x", 1>>, <<"y", 2>>, <<"x", None>>>>
    /\ DOMAIN table_data = {"y"}
    /\ table_data["y"] = 2
    /\ table_ret.op = "del"

\* The map rebuilt from a changelog: a record with a value overwrites its
\* key, a record with a null value removes it.
RECURSIVE Replay(_)
Replay(log) ==
    IF log = <<>> THEN EmptyDict
    ELSE LET m == Replay(SubSeq(log, 1, Len(log) - 1))
             rec == log[Len(log)]
         IN  IF rec[2] = None THEN DictDel(m, rec[1])
             ELSE DictSet(m, rec[1], rec[2])

\* C15: the replay of the changelog is the underlying map.
C15_RebuildLaw == Replay(changelog) = table_data

\* The replay of the changelog is the underlying map without the keys that
\* hold None.
RebuildUpToNone ==
    Replay(changelog) =
        [k \in {x \in DOMAIN table_data : table_data[x] # None} |->
            table_data[k]]

\* C16: a get of a key that is not in the underlying map, with a default
\* factory, stores the default under the key, enqueues the one record
\* (key, default) and returns the default; without a default factory it
\* raises KeyError and leaves the map and the changelog as they were.
C16_MissingKey ==
    [][(/\ table_ops' # table_ops
        /\ table_ret'.op = "get"
        /\ table_ret'.key \notin DOMAIN table_data) =>
           LET key == table_ret'.key
           IN  IF table_default # <<>>
               THEN /\ table_data' = DictSet(table_data, key, table_default[1])
                    /\ Enqueued(<<key, table_default[1]>>)
                    /\ table_ret'.value = table_default[1]
                    /\ table_ret'.error = "none"
               ELSE /\ table_ret'.error = "KeyError"
                    /\ table_data' = table_data
                    /\ changelog' = changelog]_vars

\* C16 witness: the only call made on a table with a default factory was a
\* get of a missing key; the default is stored, logged and returned.
C16_Witness ==
    /\ table_default # <<>>
    /\ table_ops = 1
    /\ table_ret = Ret("get", "x", table_default[1], "none")
    /\ table_data = DictSet(EmptyDict, "x", table_default[1])
    /\ changelog = <<<<"x", table_default[1]>>>>

\* on_partitions_revoked returns in this step.
RevokeReturns == pc["rebalance"] = "clear" /\ pc'["rebalance"] = "idle"

C18_TaskErrorCommits ==
    IF \E t \in Topics : AutoackOf(t)
    THEN pc["on_task_error"] # "skipped"
    ELSE pc["on_task_error"] \in {"idle", "skipped"}

\* C19: a maybe_commit during whose driver commit an ack arrived, for the
\* partition being committed or for a partition that had no ack list yet,
\* ends its pass without an error.
C19_AckDuringCommit ==
    \A c \in Callers : error[c] # "RuntimeError"

\* C20: an ack for a partition changes no current offset and no other
\* partition's ack list; and when a driver commit of maybe_commit fails, no
\* partition that comes after it in the pass is left with a prefix that
\* would have been committed.
C20_PartitionsIndependent ==
    [][/\ \A tp \in TPs :
             ack_count'[tp] # ack_count[tp] =>
                 /\ current_offset' = current_offset
                 /\ \A other \in DOMAIN acked \ {tp} :
                        acked'[other] = acked[other]
       /\ \A c \in Callers :
             (pc[c] = "commit" /\ error'[c] = "CommitError") =>
                 \A j \in frame[c].it..Len(acked_keys) : ~Commits(j)]_vars

====
